---- MODULE Spec2Model ----
(***************************************************************************)
(* A model of operator(proxies) of src/重命名与处理.js: the option parsing,  *)
(* the filter, dedupe, rename, sort and conflict stages, and the helpers   *)
(* they call.                                                              *)
(*                                                                         *)
(* A JavaScript string is a sequence of UTF-16 code units (naturals); a    *)
(* node object lives in a heap under an identity, so that an assignment    *)
(* to p.name is a write to the object p refers to.                         *)
(***************************************************************************)
EXTENDS Integers, Sequences, FiniteSets, TLC

VARIABLES
  args,      \* $arguments: option name -> raw value (Undef when absent)
  proxies,   \* the caller's array: a sequence of object identities
  heap,      \* object identity -> node record
  list,      \* the local variable list of operator
  pc,        \* position in operator
  cfg,       \* the constants operator derives from args (lines 71-273)
  input,     \* history: the heap as the caller passed it
  preList,   \* history: list as the conflict stage found it
  preHeap,   \* history: heap as the conflict stage found it
  origin     \* history: object made by processName -> the object it copied

vars == <<args, proxies, heap, list, pc, cfg, input, preList, preHeap, origin>>

----------------------------------------------------------------------------
(* Strings                                                                 *)

AsciiLow  == " !\"#$%&'()*+,-./0123456789:;<=>?@ABCDEFGHIJKLMNOPQRSTUVWXYZ[\\]^_"
AsciiHigh == "abcdefghijklmnopqrstuvwxyz{|}~"

\* The code unit of a printable ASCII character (32..95 and 97..126).
Ord(c) ==
  IF \E i \in 1..Len(AsciiLow) : SubSeq(AsciiLow, i, i) = c
  THEN 31 + (CHOOSE i \in 1..Len(AsciiLow) : SubSeq(AsciiLow, i, i) = c)
  ELSE 96 + (CHOOSE i \in 1..Len(AsciiHigh) : SubSeq(AsciiHigh, i, i) = c)

\* A string literal of the source as code units.
Str(s) == [i \in 1..Len(s) |-> Ord(SubSeq(s, i, i))]

\* An option the caller did not pass (undefined).
\* The string literals of the source.
S_bracket == Str("bracket")
S_upper == Str("upper")
S_before == Str("before")
S_short == Str("short")
S_asc == Str("asc")
S_zh == Str("zh")
S_index == Str("index")
S_en == Str("en")
S_flag == Str("flag")
S_full == Str("full")
S_lower == Str("lower")
S_ignore == Str("ignore")
S_paren == Str("paren")
S_none == Str("none")
S_addr == Str("addr")
S_name == Str("name")
S_all == Str("all")
S_type == Str("type")
S_desc == Str("desc")
S_hash == Str("hash")
S_drop == Str("drop")
P_prefix == Str("{prefix}")
P_sep == Str("{sep}")
P_type == Str("{type}")
P_region == Str("{region}")
P_name == Str("{name}")
K_addr == Str("A|")
K_name == Str("N|")
K_both == Str("|N|")

Undef == <<-1>>

Max(a, b) == IF a >= b THEN a ELSE b
Min(a, b) == IF a <= b THEN a ELSE b

IsSpace(c) == c \in {9, 10, 11, 12, 13, 32, 160, 5760, 8232, 8233, 8239, 8287, 12288, 65279} \/ c \in 8192..8202
IsDigit(c) == c \in 48..57
IsAsciiAlnum(c) == c \in 48..57 \/ c \in 65..90 \/ c \in 97..122
IsWordChar(c) == IsAsciiAlnum(c) \/ c = 95
IsHighSurrogate(c) == c \in 55296..56319
IsLowSurrogate(c) == c \in 56320..57343

toUpperChar(c) == IF c \in 97..122 THEN c - 32 ELSE c
toLowerChar(c) == IF c \in 65..90 THEN c + 32 ELSE c
toUpperCase(s) == [i \in 1..Len(s) |-> toUpperChar(s[i])]
toLowerCase(s) == [i \in 1..Len(s) |-> toLowerChar(s[i])]

\* s.slice(from) with from >= 0, and s.slice(0, to).
DropFirst(s, n) == SubSeq(s, n + 1, Len(s))
TakeFirst(s, n) == SubSeq(s, 1, Min(n, Len(s)))

\* The least index >= i at which pattern k occurs in s, or 0.
IndexOfFrom(s, k, i) ==
  LET hits == {j \in i..(Len(s) - Len(k) + 1) : SubSeq(s, j, j + Len(k) - 1) = k}
  IN  IF hits = {} THEN 0 ELSE CHOOSE j \in hits : \A h \in hits : j <= h

includes(s, k) == IndexOfFrom(s, k, 1) # 0

RECURSIVE trimStart(_)
trimStart(s) == IF s # <<>> /\ IsSpace(s[1]) THEN trimStart(Tail(s)) ELSE s

RECURSIVE trimEnd(_)
trimEnd(s) == IF s # <<>> /\ IsSpace(s[Len(s)]) THEN trimEnd(SubSeq(s, 1, Len(s) - 1)) ELSE s

trim(s) == trimEnd(trimStart(s))

\* F applied to the value of v: the statement that computes v, then the
\* statements that use it.
Then(v, F(_)) == CHOOSE r \in {F(x) : x \in {v}} : TRUE

\* The least element of a non-empty set of indices.
Least(K) == CHOOSE i \in K : \A k \in K : i <= k

\* The j-th least element of the set of indices K.
Nth(K, j) == CHOOSE i \in K : Cardinality({k \in K : k <= i}) = j

\* The characters of s at the positions keep, in order.
charsAt(s, keep) == [j \in 1..Cardinality(keep) |-> s[Nth(keep, j)]]

\* s.split(sep) for a separator that is one of the characters seps: the
\* pieces between consecutive separators.
split(s, seps) ==
  LET at == {i \in 1..Len(s) : s[i] \in seps}
      edge(j) == IF j = 0 THEN 0 ELSE IF j > Cardinality(at) THEN Len(s) + 1 ELSE Nth(at, j)
  IN  [j \in 1..(Cardinality(at) + 1) |-> SubSeq(s, edge(j - 1) + 1, edge(j) - 1)]

RECURSIVE join(_, _)
join(parts, sep) ==
  IF parts = <<>> THEN <<>>
  ELSE IF Len(parts) = 1 THEN parts[1]
  ELSE parts[1] \o sep \o join(Tail(parts), sep)

RECURSIVE replaceAll(_, _, _)
replaceAll(s, pat, rep) ==
  LET i == IndexOfFrom(s, pat, 1)
  IN  IF i = 0 THEN s
      ELSE SubSeq(s, 1, i - 1) \o rep \o replaceAll(DropFirst(s, i + Len(pat) - 1), pat, rep)

RECURSIVE toStringRadix(_, _)
toStringRadix(n, radix) ==
  LET d  == n % radix
      ch == IF d < 10 THEN 48 + d ELSE 87 + d
  IN  IF n < radix THEN <<ch>> ELSE Append(toStringRadix(n \div radix, radix), ch)

RECURSIVE Repeat(_, _)
Repeat(c, n) == IF n <= 0 THEN <<>> ELSE <<c>> \o Repeat(c, n - 1)

\* s.padStart(n, '0'); a NaN length is length 0.
padStart(s, n) == Repeat(48, n - Len(s)) \o s

----------------------------------------------------------------------------
(* Numbers: parseInt yields an integer or NaN.                             *)

NaN == [nan |-> TRUE, v |-> 0]
Num(n) == [nan |-> FALSE, v |-> n]

RECURSIVE digitsValue(_, _, _)
digitsValue(s, i, acc) ==
  IF i > Len(s) \/ ~IsDigit(s[i]) THEN acc
  ELSE digitsValue(s, i + 1, 10 * acc + (s[i] - 48))

\* parseInt(v, 10): leading white space, an optional sign, then the longest
\* run of decimal digits; NaN when there is none.
parseInt(v) ==
  LET t    == trimStart(v)
      neg  == t # <<>> /\ t[1] = 45
      body == IF t # <<>> /\ t[1] \in {43, 45} THEN Tail(t) ELSE t
  IN  IF body = <<>> \/ ~IsDigit(body[1]) THEN NaN
      ELSE Num(IF neg THEN 0 - digitsValue(body, 1, 0) ELSE digitsValue(body, 1, 0))

\* Math.max(a, x) for an integer a: NaN when x is NaN.
MathMax(a, x) == IF x.nan THEN NaN ELSE Num(Max(a, x.v))

\* ToIntegerOrInfinity, as padStart and slice apply it to their argument.
ToInteger(x) == IF x.nan THEN 0 ELSE x.v

----------------------------------------------------------------------------
(* Option coercion (lines 71-90)                                           *)

Truthy(v) == v # Undef /\ v # <<>>

TrueWords == {Str("1"), Str("true"), Str("on"), Str("yes")}
FalseWords == {Str("0"), Str("false"), Str("off"), Str("no")}

parseBool(v, defaultVal) ==
  IF v = Undef THEN defaultVal
  ELSE LET s == toLowerCase(v)
       IN  IF s \in TrueWords THEN TRUE
           ELSE IF s \in FalseWords THEN FALSE
           ELSE defaultVal

\* The result of a call that may throw: the value, or the fault raised.
Ok(x) == [ok |-> TRUE, val |-> x]
Fault == [ok |-> FALSE, val |-> <<>>]

HexVal(c) ==
  IF c \in 48..57 THEN c - 48
  ELSE IF c \in 65..70 THEN c - 55
  ELSE IF c \in 97..102 THEN c - 87
  ELSE 0 - 1

\* The octet of the escape %XY at s[i..i+2], or -1 when it is no escape.
EscapeAt(s, i) ==
  IF i + 2 > Len(s) \/ s[i] # 37 \/ HexVal(s[i + 1]) < 0 \/ HexVal(s[i + 2]) < 0
  THEN 0 - 1
  ELSE 16 * HexVal(s[i + 1]) + HexVal(s[i + 2])

\* ; / ? : @ & = + $ , and #: decodeURI leaves their escapes in place.
UriReserved == {59, 47, 63, 58, 64, 38, 61, 43, 36, 44, 35}

\* The number of octets of the UTF-8 sequence a lead octet announces.
Utf8Length(b) ==
  IF b \in 192..223 THEN 2 ELSE IF b \in 224..239 THEN 3 ELSE IF b \in 240..247 THEN 4 ELSE 0

\* The code point of the n-octet sequence of escapes at s[i..], or -1.
Utf8CodePoint(s, i, n) ==
  LET oct(k) == EscapeAt(s, i + 3 * k)
      lead   == oct(0)
      contOk == \A k \in 1..(n - 1) : oct(k) \in 128..191
      cp     == IF n = 2 THEN (lead - 192) * 64 + (oct(1) - 128)
                ELSE IF n = 3 THEN (lead - 224) * 4096 + (oct(1) - 128) * 64 + (oct(2) - 128)
                ELSE (lead - 240) * 262144 + (oct(1) - 128) * 4096
                     + (oct(2) - 128) * 64 + (oct(3) - 128)
      least  == IF n = 2 THEN 128 ELSE IF n = 3 THEN 2048 ELSE 65536
  IN  IF ~contOk THEN 0 - 1
      ELSE IF cp < least \/ cp > 1114111 \/ cp \in 55296..57343 THEN 0 - 1
      ELSE cp

CodeUnits(cp) ==
  IF cp < 65536 THEN <<cp>>
  ELSE <<55296 + ((cp - 65536) \div 1024), 56320 + ((cp - 65536) % 1024)>>

\* decodeURI(v): the text up to the first '%' stays, the escape sequence
\* there is decoded, and the rest is decoded in the same way; a malformed
\* escape sequence throws URIError.
RECURSIVE decodeURI(_)
decodeURI(v) ==
  LET i    == IndexOfFrom(v, <<37>>, 1)
      b    == EscapeAt(v, i)
      n    == IF b < 128 THEN 1 ELSE Utf8Length(b)
      rest == decodeURI(DropFirst(v, i + 3 * n - 1))
      here == IF b < 128 THEN (IF b \in UriReserved THEN SubSeq(v, i, i + 2) ELSE <<b>>)
              ELSE CodeUnits(Utf8CodePoint(v, i, n))
  IN  IF i = 0 THEN Ok(v)
      ELSE IF b < 0 THEN Fault
      ELSE IF b >= 128 /\ (n = 0 \/ Utf8CodePoint(v, i, n) < 0) THEN Fault
      ELSE IF ~rest.ok THEN Fault
      ELSE Ok(SubSeq(v, 1, i - 1) \o here \o rest.val)

\* parseList (lines 81-84), given the decoded text.
splitList(text) == SelectSeq([i \in 1..Len(split(text, {43, 44})) |-> trim(split(text, {43, 44})[i])],
                             LAMBDA x : x # <<>>)

parseList(v) ==
  IF ~Truthy(v) THEN Ok(<<>>)
  ELSE IF decodeURI(v).ok THEN Ok(splitList(decodeURI(v).val)) ELSE Fault

----------------------------------------------------------------------------
(* Regular expressions.  A compiled expression is the ordered list of its  *)
(* alternatives, each a literal with optional \b at either end; the        *)
(* element WS stands for \s.  All of the source's expressions carry the    *)
(* flag i.  An alternative with an optional part (\s?, G?) is listed as    *)
(* its two expansions, the longer first, as the greedy match tries them.   *)

WS == 0 - 2

Lit(w) == [w |-> w, bl |-> FALSE, br |-> FALSE]
Word(w) == [w |-> w, bl |-> TRUE, br |-> TRUE]
\* a\s?b: the expansions of a literal with one optional white space.
OptSpace(a, b) == <<Lit(a \o <<WS>> \o b), Lit(a \o b)>>

WordAt(s, i) == i >= 1 /\ i <= Len(s) /\ IsWordChar(s[i])

\* \b between s[i-1] and s[i].
BoundaryAt(s, i) == WordAt(s, i - 1) # WordAt(s, i)

ElemMatches(e, c) == IF e = WS THEN IsSpace(c) ELSE toUpperChar(e) = toUpperChar(c)

AltMatchesAt(alt, s, i) ==
  /\ i + Len(alt.w) - 1 <= Len(s)
  /\ \A k \in 1..Len(alt.w) : ElemMatches(alt.w[k], s[i + k - 1])
  /\ alt.bl => BoundaryAt(s, i)
  /\ alt.br => BoundaryAt(s, i + Len(alt.w))

RegexMatchesAt(rx, s, i) == \E a \in 1..Len(rx) : AltMatchesAt(rx[a], s, i)

\* rx.test(s)
RegexTest(rx, s) == \E i \in 1..(Len(s) + 1) : RegexMatchesAt(rx, s, i)

\* The leftmost match of rx in s, by the first alternative that matches
\* there: [at, len], at = 0 when there is none.
RegexFirstMatch(rx, s) ==
  IF ~RegexTest(rx, s) THEN [at |-> 0, len |-> 0]
  ELSE LET i == CHOOSE j \in 1..(Len(s) + 1) :
                  RegexMatchesAt(rx, s, j) /\ \A h \in 1..(j - 1) : ~RegexMatchesAt(rx, s, h)
           a == CHOOSE b \in 1..Len(rx) :
                  AltMatchesAt(rx[b], s, i) /\ \A h \in 1..(b - 1) : ~AltMatchesAt(rx[h], s, i)
       IN  [at |-> i, len |-> Len(rx[a].w)]

\* s.replace(rx, '') for an expression without the flag g.
RegexRemoveFirst(rx, s) ==
  LET m == RegexFirstMatch(rx, s)
  IN  IF m.at = 0 THEN s ELSE SubSeq(s, 1, m.at - 1) \o DropFirst(s, m.at + m.len - 1)

\* The number of groups open after the first i characters of src.
parenDepth(src, i) ==
  Cardinality({k \in 1..i : src[k] = 40}) - Cardinality({k \in 1..i : src[k] = 41})

\* new RegExp(src, 'i') for a pattern of literal characters, '|' and
\* parentheses: a SyntaxError for an unterminated group or an unmatched ')',
\* else the alternatives in order.
RegExpNew(src) ==
  IF parenDepth(src, Len(src)) # 0 \/ \E i \in 1..Len(src) : parenDepth(src, i) < 0 THEN Fault
  ELSE Ok([i \in 1..Len(split(src, {124})) |-> Lit(split(src, {124})[i])])

\* toRegex (lines 86-90): null (the empty list of alternatives never
\* consulted) when absent or when anything inside the try throws.
NoRegex == [set |-> FALSE, rx |-> <<>>]
toRegex(v) ==
  IF ~Truthy(v) THEN NoRegex
  ELSE IF ~decodeURI(v).ok THEN NoRegex
  ELSE IF ~RegExpNew(decodeURI(v).val).ok THEN NoRegex
  ELSE [set |-> TRUE, rx |-> RegExpNew(decodeURI(v).val).val]

----------------------------------------------------------------------------
(* generateHash (lines 118-125).  The value of the variable hash is a      *)
(* double holding an integer; it is kept as hi * 2^16 + lo with            *)
(* 0 <= lo < 2^16 and hi any integer, exact as the double is while the     *)
(* text stays far below 2^21 characters.                                   *)

Limb == 65536
HashSeed == 5381

Wide(hi, lo) == [hi |-> hi, lo |-> lo]

\* hash << 5: ToInt32 of the operand, shifted within 32 bits, read signed.
ShiftLeft5(h) ==
  LET lo == (h.lo * 32) % Limb
      hi == ((h.hi % Limb) * 32 + ((h.lo * 32) \div Limb)) % Limb
  IN  Wide(IF hi >= 32768 THEN hi - Limb ELSE hi, lo)

\* Faulty variant of hashStep: (hash << 5) - hash + charCode, i.e. hash * 31.
hashStep_times31(h, c) ==
  LET shifted == ShiftLeft5(h)
  IN  Wide(shifted.hi - h.hi + ((shifted.lo - h.lo + c) \div Limb),
           (shifted.lo - h.lo + c) % Limb)

\* One iteration of the loop body (line 122): ((hash << 5) + hash) + charCode,
\* the additions on unbounded integers.
hashStep(h, c) ==
  LET shifted == ShiftLeft5(h)
  IN  Wide(h.hi + shifted.hi + ((h.lo + shifted.lo + c) \div Limb),
           (h.lo + shifted.lo + c) % Limb)

\* The iterations first..last of the loop of lines 121-123, entered with hash
\* being h: a range of several iterations is its first half followed by its
\* second half, entered with the value m the first half leaves.
RECURSIVE hashLoop(_, _, _, _)
hashLoop(text, first, last, h) ==
  IF first > last THEN h
  ELSE IF first = last THEN hashStep(h, text[first])
  ELSE Then(hashLoop(text, first, (first + last) \div 2, h),
            LAMBDA m : hashLoop(text, ((first + last) \div 2) + 1, last, m))

\* hash >>> 0
ToUint32(h) == Wide(h.hi % Limb, h.lo)

\* (n).toString(16) of an unsigned 32-bit value
toHex(u) ==
  IF u.hi = 0 THEN toStringRadix(u.lo, 16)
  ELSE toStringRadix(u.hi, 16) \o Repeat(48, 4 - Len(toStringRadix(u.lo, 16))) \o toStringRadix(u.lo, 16)

\* s.slice(-n) for n >= 1 or NaN: the last n characters; all of s when n is
\* NaN (-NaN converts to 0) or n >= length.
sliceLast(s, n) ==
  IF ToInteger(n) = 0 THEN s ELSE SubSeq(s, Max(1, Len(s) - ToInteger(n) + 1), Len(s))

generateHash(str, length) ==
  Then(str, LAMBDA text :
  Then(hashLoop(text, 1, Len(text), Wide(0, HashSeed)), LAMBDA hash :
  sliceLast(toHex(ToUint32(hash)), MathMax(1, length))))

----------------------------------------------------------------------------
(* Configuration (lines 71, 129-192, 260-273)                              *)

OptionNames ==
  {"name", "subName", "abbr", "typeFmt", "case", "sep", "includeType", "pos", "template",
   "keepUnknownType", "map", "removeEmoji", "sanitize", "trimSpaces", "maxLen", "normalize",
   "cjkSpace", "include", "exclude", "regexInclude", "regexExclude", "onlyTypes", "dropTypes",
   "dedupe", "sortBy", "sortOrder", "addFlag", "locLang", "regionMap", "fallbackFlag",
   "removeRegionName", "conflict", "indexPad", "hashLen"}

\* (v || d).toString().toLowerCase()
lowerOr(v, d) == toLowerCase(IF Truthy(v) THEN v ELSE d)

\* v ? decodeURI(String(v)) : d
decodeOr(v, d) == IF Truthy(v) THEN decodeURI(v) ELSE Ok(d)

\* v ? parseInt(v, 10) : d
parseIntOr(v, d) == IF Truthy(v) THEN parseInt(v) ELSE Num(d)

DefaultSep == Str(" - ")
DefaultFallbackFlag == <<55356, 57332, 8205, 9760, 65039>>
DefaultIndexPad == 2
DefaultHashLen == 4

subNameOf(a) ==
  IF Truthy(a["name"]) THEN decodeURI(a["name"]) ELSE decodeOr(a["subName"], <<>>)

sepOf(a) == IF a["sep"] # Undef THEN decodeURI(a["sep"]) ELSE Ok(DefaultSep)

builtInTypeAbbr ==
  << <<Str("SHADOWSOCKS"), Str("SS")>>, <<Str("VMESS"), Str("VM")>>,
     <<Str("TROJAN"), Str("TR")>>, <<Str("HYSTERIA"), Str("HY")>>,
     <<Str("HYSTERIA2"), Str("HY2")>>, <<Str("VLESS"), Str("VL")>>,
     <<Str("WIREGUARD"), Str("WG")>>, <<Str("TUIC"), Str("TUIC")>>,
     <<Str("HTTP"), Str("HTTP")>>, <<Str("SOCKS5"), Str("S5")>>,
     <<Str("SNELL"), Str("SN")>>, <<Str("ANYTLS"), Str("AT")>>
  >>

\* The assignments lines 188-191 make, in order.
RECURSIVE userTypeAbbr(_)
userTypeAbbr(pairs) ==
  IF pairs = <<>> THEN <<>>
  ELSE LET parts == split(pairs[1], {58})
           valid == Len(parts) >= 2 /\ parts[1] # <<>> /\ parts[2] # <<>>
       IN  (IF valid THEN << <<toUpperCase(trim(parts[1])), trim(parts[2])>> >> ELSE <<>>)
           \o userTypeAbbr(Tail(pairs))

\* The entries lines 262-272 push, in order; a fault when a pattern does
\* not compile (new RegExp is called outside any try).
RECURSIVE userRegionsOf(_)
userRegionsOf(entries) ==
  IF entries = <<>> THEN Ok(<<>>)
  ELSE LET parts == split(entries[1], {58})
           part(k) == IF Len(parts) >= k THEN parts[k] ELSE <<>>
           rest == userRegionsOf(Tail(entries))
       IN  IF part(1) = <<>> THEN rest
           ELSE IF ~RegExpNew(part(1)).ok \/ ~rest.ok THEN Fault
           ELSE Ok(<< [key  |-> RegExpNew(part(1)).val,
                       zh   |-> IF part(2) # <<>> THEN part(2) ELSE part(1),
                       en   |-> IF part(2) # <<>> THEN part(2) ELSE part(1),
                       flag |-> part(3)] >> \o rest.val)

regionMapOf(a) ==
  IF ~Truthy(a["regionMap"]) THEN Ok(<<>>)
  ELSE IF ~parseList(a["regionMap"]).ok THEN Fault
  ELSE userRegionsOf(parseList(a["regionMap"]).val)

\* Whether evaluating lines 71-273 on the option map a throws.
ParseThrows(a) ==
  \/ ~subNameOf(a).ok
  \/ ~sepOf(a).ok
  \/ ~decodeOr(a["template"], <<>>).ok
  \/ \E k \in {"include", "exclude", "onlyTypes", "dropTypes"} : ~parseList(a[k]).ok
  \/ ~decodeOr(a["fallbackFlag"], DefaultFallbackFlag).ok
  \/ (Truthy(a["map"]) /\ ~parseList(a["map"]).ok)
  \/ ~regionMapOf(a).ok

upperAll(l) == [i \in 1..Len(l) |-> toUpperCase(l[i])]

\* The constants of lines 71-273, for an option map on which none throws.
Configure(a) ==
  [ subName          |-> subNameOf(a).val,
    useAbbr          |-> parseBool(a["abbr"], TRUE),
    typeFmt          |-> lowerOr(a["typeFmt"], S_bracket),
    typeCase         |-> lowerOr(a["case"], S_upper),
    sep              |-> sepOf(a).val,
    includeType      |-> parseBool(a["includeType"], TRUE),
    pos              |-> lowerOr(a["pos"], S_before),
    template         |-> decodeOr(a["template"], <<>>).val,
    keepUnknownType  |-> lowerOr(a["keepUnknownType"], S_short),
    enableRemoveEmoji |-> parseBool(a["removeEmoji"], FALSE),
    enableTrimSpaces |-> parseBool(a["trimSpaces"], FALSE),
    enableSanitize   |-> parseBool(a["sanitize"], FALSE),
    maxLen           |-> parseIntOr(a["maxLen"], 0),
    enableNormalize  |-> parseBool(a["normalize"], FALSE),
    enableCjkSpace   |-> parseBool(a["cjkSpace"], FALSE),
    include          |-> parseList(a["include"]).val,
    exclude          |-> parseList(a["exclude"]).val,
    rxInclude        |-> toRegex(a["regexInclude"]),
    rxExclude        |-> toRegex(a["regexExclude"]),
    onlyTypes        |-> upperAll(parseList(a["onlyTypes"]).val),
    dropTypes        |-> upperAll(parseList(a["dropTypes"]).val),
    dedupe           |-> lowerOr(a["dedupe"], <<>>),
    sortBy           |-> lowerOr(a["sortBy"], <<>>),
    sortOrder        |-> lowerOr(a["sortOrder"], S_asc),
    addFlag          |-> parseBool(a["addFlag"], FALSE),
    locLang          |-> lowerOr(a["locLang"], S_zh),
    fallbackFlag     |-> decodeOr(a["fallbackFlag"], DefaultFallbackFlag).val,
    removeRegionName |-> parseBool(a["removeRegionName"], FALSE),
    conflict         |-> lowerOr(a["conflict"], S_index),
    indexPad         |-> parseIntOr(a["indexPad"], DefaultIndexPad),
    hashLen          |-> parseIntOr(a["hashLen"], DefaultHashLen),
    typeAbbr         |-> builtInTypeAbbr
                         \o (IF Truthy(a["map"]) THEN userTypeAbbr(parseList(a["map"]).val)
                             ELSE <<>>),
    userRegions      |-> regionMapOf(a).val ]

----------------------------------------------------------------------------
(* Region rules (lines 195-258).  The table below holds the rules for Hong *)
(* Kong, Japan, the United States and the United Kingdom, in table order;  *)
(* the node names drawn in Init match none of the rules left out.          *)

builtInRegions ==
  << [key  |-> OptSpace(Str("Hong"), Str("Kong"))
               \o <<Word(Str("HKG")), Word(Str("HK")), Lit(<<39321, 28207>>)>>,
      zh   |-> <<39321, 28207>>, en |-> Str("Hong Kong"),
      flag |-> <<55356, 56813, 55356, 56816>>],
     [key  |-> <<Lit(Str("Japan")), Word(Str("JPN")), Word(Str("JP")), Lit(<<26085, 26412>>),
                 Lit(Str("Tokyo")), Lit(<<19996, 20140>>), Lit(<<22823, 38442>>),
                 Lit(Str("Osaka"))>>,
      zh   |-> <<26085, 26412>>, en |-> Str("Japan"),
      flag |-> <<55356, 56815, 55356, 56821>>],
     [key  |-> OptSpace(Str("United"), Str("States"))
               \o <<Word(Str("USA")), Word(Str("US")), Lit(<<32654, 22269>>)>>
               \o OptSpace(Str("Los"), Str("Angeles")) \o OptSpace(Str("San"), Str("Jose"))
               \o OptSpace(Str("New"), Str("York"))
               \o <<Lit(Str("Chicago")), Lit(Str("Miami")), Lit(Str("Seattle")),
                    Lit(Str("Dallas"))>>,
      zh   |-> <<32654, 22269>>, en |-> Str("United States"),
      flag |-> <<55356, 56826, 55356, 56824>>],
     [key  |-> OptSpace(Str("United"), Str("Kingdom"))
               \o <<Word(Str("GBR")), Word(Str("UK")), Lit(<<33521, 22269>>),
                    Lit(Str("London")), Lit(<<20262, 25958>>)>>,
      zh   |-> <<33521, 22269>>, en |-> Str("United Kingdom"),
      flag |-> <<55356, 56812, 55356, 56807>>]
  >>

NoRegion == [found |-> FALSE, zh |-> <<>>, en |-> <<>>, flag |-> <<>>]

\* detectRegion (lines 276-281): user rules first, then the table, in order.
detectRegion(name) ==
  LET rules == cfg.userRegions \o builtInRegions
      hits  == {i \in 1..Len(rules) : RegexTest(rules[i].key, name)}
  IN  IF hits = {} THEN NoRegion
      ELSE LET r == rules[CHOOSE i \in hits : \A h \in hits : i <= h]
           IN  [found |-> TRUE, zh |-> r.zh, en |-> r.en, flag |-> r.flag]

\* buildRegionStr (lines 283-290)
buildRegionStr(name) ==
  LET region == detectRegion(name)
      flag   == IF region.flag # <<>> THEN region.flag ELSE cfg.fallbackFlag
      label  == IF cfg.locLang = S_en THEN region.en ELSE region.zh
  IN  IF ~cfg.addFlag THEN <<>>
      ELSE IF cfg.locLang = S_flag THEN flag
      ELSE IF label # <<>> THEN flag \o <<32>> \o label
      ELSE flag

\* typeAbbr[upperType]: the value last assigned under the key, or the empty
\* string for a key never assigned (both fail the test !abbr).
lookupAbbr(table, key) ==
  LET hits == {i \in 1..Len(table) : table[i][1] = key}
  IN  IF hits = {} THEN <<>> ELSE table[CHOOSE i \in hits : \A k \in hits : i >= k][2]

\* Faulty variant of typeLabel: the unknown-type policy applied whatever the
\* abbr toggle says.
typeLabel_policyFirst(upperType) ==
  LET found == lookupAbbr(cfg.typeAbbr, upperType)
  IN  IF found # <<>> THEN (IF cfg.useAbbr THEN found ELSE upperType)
      ELSE IF cfg.keepUnknownType = S_full THEN upperType
      ELSE SubSeq(upperType, 1, Min(2, Len(upperType)))

\* The variable label of buildTypeDisplay after line 301; only reached when
\* line 297 has not returned.
typeLabel(upperType) ==
  LET found == lookupAbbr(cfg.typeAbbr, upperType)
      abbr  == IF found # <<>> THEN found
               ELSE IF cfg.keepUnknownType = S_full THEN upperType
               ELSE TakeFirst(upperType, 2)
  IN  IF cfg.useAbbr THEN abbr ELSE upperType

\* buildTypeDisplay (lines 292-309)
buildTypeDisplay(fullType) ==
  LET upperType == toUpperCase(fullType)
      label     == IF cfg.typeCase = S_lower THEN toLowerCase(typeLabel(upperType))
                   ELSE typeLabel(upperType)
  IN  IF lookupAbbr(cfg.typeAbbr, upperType) = <<>> /\ cfg.keepUnknownType = S_ignore
      THEN <<>>
      ELSE IF cfg.typeFmt = S_paren THEN <<40>> \o label \o <<41>>
      ELSE IF cfg.typeFmt = S_none THEN label
      ELSE <<91>> \o label \o <<93>>

----------------------------------------------------------------------------
(* Text functions (lines 95-116)                                           *)

\* A surrogate pair at s[i], s[i+1].
PairAt(s, i) == i >= 1 /\ i < Len(s) /\ IsHighSurrogate(s[i]) /\ IsLowSurrogate(s[i + 1])

removeEmoji(s) == charsAt(s, {i \in 1..Len(s) : ~PairAt(s, i) /\ ~PairAt(s, i - 1)})

SanitizedChars == {92, 47, 58, 42, 63, 34, 60, 62, 124}
sanitizeChars(s) == [i \in 1..Len(s) |-> IF s[i] \in SanitizedChars THEN 45 ELSE s[i]]

\* The length of the run of white space that starts at s[i].
spaceRun(s, i) == Cardinality({n \in i..Len(s) : \A k \in i..n : IsSpace(s[k])})

\* s.replace(/\s{least,}/g, ' '): a maximal run of at least least white
\* space characters becomes one space.
collapseSpaces(s, least) ==
  LET starts == {i \in 1..Len(s) : IsSpace(s[i]) /\ (i = 1 \/ ~IsSpace(s[i - 1]))
                                    /\ spaceRun(s, i) >= least}
      inside == {i \in 1..Len(s) : \E j \in starts : i > j /\ i < j + spaceRun(s, j)}
  IN  charsAt([i \in 1..Len(s) |-> IF i \in starts THEN 32 ELSE s[i]], (1..Len(s)) \ inside)

trimSpaces(s) == trim(collapseSpaces(s, 2))

\* '…'
Ellipsis == 8230

\* truncateText (line 98), for a maxLen that is an integer
truncateText(s, maxLen) ==
  IF maxLen # 0 /\ Len(s) > maxLen THEN TakeFirst(s, maxLen - 1) \o <<Ellipsis>> ELSE s

\* s.normalize('NFKC') on ASCII, the fullwidth forms U+FF01..U+FF5E, and the
\* CJK and regional-indicator characters of the tables above.
normalizeUnicode(s) == [i \in 1..Len(s) |-> IF s[i] \in 65281..65374 THEN s[i] - 65248 ELSE s[i]]

IsCjk(c) ==
  \/ c \in 11904..12031 \/ c \in 12032..12255 \/ c \in 12352..12543
  \/ c \in 13312..19903 \/ c \in 19968..40959 \/ c \in 63744..64255

\* The loop of lines 104-114: s[i] is followed by a space when s[i] and
\* s[i+1] are a CJK character and an ASCII letter or digit, in either order
\* (result then ends in s[i], never in a space).
addCjkSpaces(s) ==
  LET spaced(i) == /\ i < Len(s)
                   /\ \/ IsCjk(s[i]) /\ IsAsciiAlnum(s[i + 1])
                      \/ IsAsciiAlnum(s[i]) /\ IsCjk(s[i + 1])
      padded == [j \in 1..(2 * Len(s)) |-> IF j % 2 = 1 THEN s[(j + 1) \div 2] ELSE 32]
  IN  charsAt(padded, {j \in 1..(2 * Len(s)) : j % 2 = 1 \/ spaced(j \div 2)})

----------------------------------------------------------------------------
(* Name composition (lines 311-376)                                        *)

RECURSIVE removeEach(_, _)
\* The loops of lines 316-323: each rule's first match removed, then trim.
removeEach(rules, name) ==
  IF rules = <<>> THEN name
  ELSE Then(trim(RegexRemoveFirst(rules[1].key, name)),
            LAMBDA cleanedName : removeEach(Tail(rules), cleanedName))

\* Two regional indicator symbols (U+1F1E6..U+1F1FF) at s[i..i+3].
IsRegionalIndicatorPair(s, i) ==
  /\ i + 3 <= Len(s)
  /\ s[i] = 55356 /\ s[i + 1] \in 56806..56831
  /\ s[i + 2] = 55356 /\ s[i + 3] \in 56806..56831

\* replace(/[\u{1F1E6}-\u{1F1FF}]{2}/gu, ''): the leftmost pair goes, and
\* the pairs of what follows it.
RECURSIVE removeFlags(_)
removeFlags(s) ==
  LET hits == {i \in 1..Len(s) : IsRegionalIndicatorPair(s, i)}
  IN  IF hits = {} THEN s
      ELSE SubSeq(s, 1, Least(hits) - 1) \o removeFlags(DropFirst(s, Least(hits) + 3))

\* The alternatives of the expression of line 329, in order.
OtherFlagGlyphs ==
  << <<55356, 57332, 8205, 9760, 65039>>,
     <<55356, 57331, 65039, 8205, 55356, 57096>>,
     <<55356, 57331, 65039, 8205, 9895, 65039>>,
     <<55356, 57332>>,
     <<55356, 57331, 65039>> >>

\* The alternatives that match at s[i].
GlyphsAt(s, i) ==
  {g \in 1..Len(OtherFlagGlyphs) :
     /\ i + Len(OtherFlagGlyphs[g]) - 1 <= Len(s)
     /\ SubSeq(s, i, i + Len(OtherFlagGlyphs[g]) - 1) = OtherFlagGlyphs[g]}

\* The leftmost match, by its first alternative, goes, and the matches of
\* what follows it.
RECURSIVE removeGlyphs(_)
removeGlyphs(s) ==
  LET hits == {i \in 1..Len(s) : GlyphsAt(s, i) # {}}
      i    == Least(hits)
  IN  IF hits = {} THEN s
      ELSE SubSeq(s, 1, i - 1)
           \o removeGlyphs(DropFirst(s, i + Len(OtherFlagGlyphs[Least(GlyphsAt(s, i))]) - 1))

\* cleanRegionFromName (lines 311-333)
cleanRegionFromName(name) ==
  IF ~cfg.removeRegionName THEN name
  ELSE Then(removeEach(cfg.userRegions, name), LAMBDA n1 :
       Then(removeEach(builtInRegions, n1), LAMBDA n2 :
       Then(trim(removeFlags(n2)), LAMBDA n3 :
       Then(trim(removeGlyphs(n3)), LAMBDA n4 :
       trim(collapseSpaces(n4, 1))))))

\* The template substitutions of lines 346-351, in the order made.
fillTemplate(typeDisplay, regionStr, newName) ==
  replaceAll(replaceAll(replaceAll(replaceAll(replaceAll(cfg.template,
    P_prefix, cfg.subName),
    P_sep, cfg.sep),
    P_type, typeDisplay),
    P_region, regionStr),
    P_name, newName)

\* The parts of lines 353-363, joined.
joinParts(typeDisplay, regionStr, newName) ==
  join((IF regionStr # <<>> THEN <<regionStr>> ELSE <<>>)
       \o <<cfg.subName>>
       \o (IF cfg.pos = S_before
           THEN (IF typeDisplay # <<>> THEN <<typeDisplay>> ELSE <<>>) \o <<newName>>
           ELSE <<newName>> \o (IF typeDisplay # <<>> THEN <<typeDisplay>> ELSE <<>>)),
       cfg.sep)

\* The name after lines 336-365.
composeName(proxy) ==
  LET typeDisplay  == IF cfg.includeType THEN buildTypeDisplay(toUpperCase(proxy.type)) ELSE <<>>
      newName      == cleanRegionFromName(proxy.name)
      regionStr    == buildRegionStr(proxy.name)
      shouldFormat == cfg.subName # <<>> \/ cfg.template # <<>> \/ ~cfg.includeType \/ cfg.addFlag
  IN  IF shouldFormat /\ cfg.template # <<>> THEN fillTemplate(typeDisplay, regionStr, newName)
      ELSE IF shouldFormat /\ cfg.subName # <<>> THEN joinParts(typeDisplay, regionStr, newName)
      ELSE newName

\* The text processing of lines 368-373.
finishName(n0) ==
  Then(IF cfg.enableRemoveEmoji THEN removeEmoji(n0) ELSE n0, LAMBDA n1 :
  Then(IF cfg.enableSanitize THEN sanitizeChars(n1) ELSE n1, LAMBDA n2 :
  Then(IF cfg.enableTrimSpaces THEN trimSpaces(n2) ELSE n2, LAMBDA n3 :
  Then(IF cfg.enableNormalize THEN normalizeUnicode(n3) ELSE n3, LAMBDA n4 :
  Then(IF cfg.enableCjkSpace THEN trimSpaces(addCjkSpaces(n4)) ELSE n4, LAMBDA n5 :
  IF ~cfg.maxLen.nan /\ cfg.maxLen.v > 0 THEN truncateText(n5, cfg.maxLen.v) ELSE n5)))))

\* processName (lines 335-376): a new object, the fields of proxy with name
\* replaced.
processName(proxy) ==
  Then(composeName(proxy), LAMBDA newName : [proxy EXCEPT !.name = finishName(newName)])

----------------------------------------------------------------------------
(* The stages of operator (lines 379-452)                                  *)

\* An array entry that is no object (null).
NullRef == 0

\* The predicate of the filter of lines 383-395.
passesFilter(p) ==
  LET type == toUpperCase(p.type)
      name == p.name
      has(l, x) == \E i \in 1..Len(l) : l[i] = x
  IN  /\ ~(cfg.onlyTypes # <<>> /\ ~has(cfg.onlyTypes, type))
      /\ ~(cfg.dropTypes # <<>> /\ has(cfg.dropTypes, type))
      /\ ~(cfg.include # <<>> /\ ~\E i \in 1..Len(cfg.include) : includes(name, cfg.include[i]))
      /\ ~(cfg.exclude # <<>> /\ \E i \in 1..Len(cfg.exclude) : includes(name, cfg.exclude[i]))
      /\ ~(cfg.rxInclude.set /\ ~RegexTest(cfg.rxInclude.rx, name))
      /\ ~(cfg.rxExclude.set /\ RegexTest(cfg.rxExclude.rx, name))

\* Lines 379-395: the copy of the array, without non-objects, filtered.
filterStage(arr, h) == SelectSeq(arr, LAMBDA r : r # NullRef /\ passesFilter(h[r]))

\* The key of lines 401-408; DedupeOff for a mode that keeps every node.
DedupeOff == <<0 - 3>>

\* Faulty variant of dedupeKey: the addr key carries the name as well.
dedupeKey_withName(p) ==
  LET addr == p.server \o <<58>> \o p.port \o <<58>> \o toUpperCase(p.type)
  IN  IF cfg.dedupe = S_addr THEN K_addr \o addr \o K_both \o p.name
      ELSE IF cfg.dedupe = S_name THEN K_name \o p.name
      ELSE IF cfg.dedupe = S_all THEN K_addr \o addr \o K_both \o p.name
      ELSE DedupeOff

dedupeKey(p) ==
  LET addr == p.server \o <<58>> \o p.port \o <<58>> \o toUpperCase(p.type)
  IN  IF cfg.dedupe = S_addr THEN K_addr \o addr
      ELSE IF cfg.dedupe = S_name THEN K_name \o p.name
      ELSE IF cfg.dedupe = S_all THEN K_addr \o addr \o K_both \o p.name
      ELSE DedupeOff

RECURSIVE dedupeFrom(_, _, _, _)
dedupeFrom(l, h, i, seen) ==
  IF i > Len(l) THEN <<>>
  ELSE LET key == dedupeKey(h[l[i]])
       IN  IF key = DedupeOff THEN <<l[i]>> \o dedupeFrom(l, h, i + 1, seen)
           ELSE IF key \in seen THEN dedupeFrom(l, h, i + 1, seen)
           ELSE <<l[i]>> \o dedupeFrom(l, h, i + 1, seen \cup {key})

\* Lines 398-415
dedupeStage(l, h) == IF cfg.dedupe # <<>> THEN dedupeFrom(l, h, 1, {}) ELSE l

\* Faulty variant of newObject: the name assigned on the object itself.
newObject_inPlace(ref, fresh) == ref

\* The identity of the object processName returns for the object ref: the
\* object literal of line 375 is a new object.
newObject(ref, fresh) == fresh

\* The heap after list.map(processName) (line 418): the object made for
\* list[i] is Len(h) + i.
renameHeap(l, h) ==
  LET target(i) == newObject(l[i], Len(h) + i)
  IN  [id \in 1..(Len(h) + Len(l)) |->
         IF \E i \in 1..Len(l) : target(i) = id
         THEN processName(h[l[CHOOSE i \in 1..Len(l) : target(i) = id]])
         ELSE IF id <= Len(h) THEN h[id]
         ELSE h[l[id - Len(h)]]]

renameList(l, h) == [i \in 1..Len(l) |-> newObject(l[i], Len(h) + i)]

\* a.localeCompare(b) for strings of digits and upper-case ASCII letters,
\* which collate in code order: -1, 0 or 1.
localeCompare(a, b) ==
  LET diff == {i \in 1..Min(Len(a), Len(b)) : a[i] # b[i]}
  IN  IF diff # {} THEN (IF a[Least(diff)] < b[Least(diff)] THEN 0 - 1 ELSE 1)
      ELSE IF Len(a) < Len(b) THEN 0 - 1
      ELSE IF Len(a) > Len(b) THEN 1
      ELSE 0

\* The comparator of lines 423-428.
compareNodes(a, b) ==
  LET av == IF cfg.sortBy = S_type THEN toUpperCase(a.type) ELSE a.name
      bv == IF cfg.sortBy = S_type THEN toUpperCase(b.type) ELSE b.name
  IN  IF cfg.sortOrder = S_desc THEN 0 - localeCompare(av, bv) ELSE localeCompare(av, bv)

\* x put into the sorted list acc behind every element that does not
\* compare greater: Array.prototype.sort is stable.
insertSorted(acc, x, h) ==
  LET k == Cardinality({i \in 1..Len(acc) : compareNodes(h[acc[i]], h[x]) <= 0})
  IN  SubSeq(acc, 1, k) \o <<x>> \o DropFirst(acc, k)

RECURSIVE sortFrom(_, _, _, _)
sortFrom(l, h, i, acc) ==
  IF i > Len(l) THEN acc ELSE sortFrom(l, h, i + 1, insertSorted(acc, l[i], h))

\* Lines 422-429
sortStage(l, h) == IF cfg.sortBy # <<>> THEN sortFrom(l, h, 1, <<>>) ELSE l

\* Faulty variant of indexSuffix: padded to indexPad digits with no minimum.
indexSuffix_noMinimum(count) == padStart(toStringRadix(count, 10), ToInteger(cfg.indexPad))

\* The suffix line 446 computes for the count-th node of a name.
indexSuffix(count) == padStart(toStringRadix(count, 10), ToInteger(MathMax(2, cfg.indexPad)))

\* The text line 443 hashes.
hashInput(p) == p.server \o <<58>> \o p.port \o <<58>> \o p.type \o <<58>> \o p.name

\* The name lines 442-448 assign to a repeated node p.
conflictName(p, count) ==
  IF cfg.conflict = S_hash THEN p.name \o <<45>> \o generateHash(hashInput(p), cfg.hashLen)
  ELSE p.name \o <<32>> \o indexSuffix(count)

\* The filter callback of lines 434-451 applied to l[i..]; seen holds the
\* names met so far, once per node, as nameCount counts them.
RECURSIVE conflictFrom(_, _, _, _)
conflictFrom(l, h, i, seen) ==
  IF i > Len(l) THEN [list |-> <<>>, heap |-> h]
  ELSE LET p     == h[l[i]]
           count == Cardinality({j \in 1..Len(seen) : seen[j] = p.name}) + 1
           seen2 == Append(seen, p.name)
       IN  IF count = 1
           THEN LET r == conflictFrom(l, h, i + 1, seen2)
                IN  [list |-> <<l[i]>> \o r.list, heap |-> r.heap]
           ELSE IF cfg.conflict = S_drop THEN conflictFrom(l, h, i + 1, seen2)
           ELSE Then(conflictName(p, count), LAMBDA name :
                  LET r == conflictFrom(l, [h EXCEPT ![l[i]].name = name], i + 1, seen2)
                  IN  [list |-> <<l[i]>> \o r.list, heap |-> r.heap])

\* Lines 432-452
conflictStage(l, h) ==
  IF cfg.conflict # S_none THEN conflictFrom(l, h, 1, <<>>) ELSE [list |-> l, heap |-> h]

----------------------------------------------------------------------------
(* The run of operator                                                     *)

Unset == <<>>

\* Lines 68-273: the options are read; a throw ends the call.
ParseArgs ==
  /\ pc = "parse"
  /\ IF ParseThrows(args)
     THEN pc' = "raised" /\ cfg' = cfg
     ELSE pc' = "filter" /\ cfg' = Configure(args)
  /\ UNCHANGED <<args, proxies, heap, list, input, preList, preHeap, origin>>

\* Lines 379-395
Filter ==
  /\ pc = "filter"
  /\ list' = filterStage(proxies, heap)
  /\ pc' = "dedupe"
  /\ UNCHANGED <<args, proxies, heap, cfg, input, preList, preHeap, origin>>

\* Lines 398-415
Dedupe ==
  /\ pc = "dedupe"
  /\ list' = dedupeStage(list, heap)
  /\ pc' = "rename"
  /\ UNCHANGED <<args, proxies, heap, cfg, input, preList, preHeap, origin>>

\* Line 418
Rename ==
  /\ pc = "rename"
  /\ heap' = renameHeap(list, heap)
  /\ list' = renameList(list, heap)
  /\ origin' = [id \in 1..(Len(heap) + Len(list)) |->
                  IF id <= Len(heap) THEN id ELSE list[id - Len(heap)]]
  /\ pc' = "sort"
  /\ UNCHANGED <<args, proxies, cfg, input, preList, preHeap>>

\* Lines 422-429
Sort ==
  /\ pc = "sort"
  /\ list' = sortStage(list, heap)
  /\ pc' = "conflict"
  /\ UNCHANGED <<args, proxies, heap, cfg, input, preList, preHeap, origin>>

\* Lines 432-454: the conflict stage, and the return of list.
Conflict ==
  /\ pc = "conflict"
  /\ preList' = list
  /\ preHeap' = heap
  /\ list' = conflictStage(list, heap).list
  /\ heap' = conflictStage(list, heap).heap
  /\ pc' = "done"
  /\ UNCHANGED <<args, proxies, cfg, input, origin>>

Next == ParseArgs \/ Filter \/ Dedupe \/ Rename \/ Sort \/ Conflict

----------------------------------------------------------------------------
(* Inputs.  A call is drawn from one of five families of node lists and    *)
(* option maps; every list has at most MaxNodes nodes.                     *)

MaxNodes == 3

Node(name, type, server, port) ==
  [name |-> Str(name), type |-> Str(type), server |-> Str(server), port |-> Str(port),
   uuid |-> Str("u-1")]

\* The option map that passes the pairs ps and nothing else.
Opts(ps) ==
  [k \in OptionNames |-> IF \E q \in ps : q[1] = k THEN (CHOOSE q \in ps : q[1] = k)[2] ELSE Undef]

\* Repeated and colliding names under each conflict mode.
ConflictNodes ==
  {Node("HK", "vmess", "a.io", "1"), Node("HK", "vmess", "a.io", "2"),
   Node("HK 02", "vmess", "a.io", "1"), Node("HK", "ss", "b.io", "1")}

ConflictOptions ==
  {Opts({})}
  \cup {Opts({<<"conflict", Str(c)>>}) : c \in {"index", "Hash", "drop", "none"}}
  \cup {Opts({<<"conflict", Str("index")>>, <<"indexPad", Str(n)>>}) : n \in {"3", "1", "0"}}
  \cup {Opts({<<"indexPad", Str("4")>>, <<"sortBy", Str("type")>>})}
  \cup {Opts({<<"conflict", Str("hash")>>, <<"hashLen", Str(n)>>}) : n \in {"2", "0", "9"}}
  \cup {Opts({<<"conflict", Str(c)>>, <<"maxLen", Str("2")>>}) : c \in {"index", "hash", "drop"}}
  \cup {Opts({<<"sortBy", Str("type")>>, <<"sortOrder", Str(o)>>}) : o \in {"asc", "desc"}}

\* Nodes that share an address, a name, or both.
DedupeNodes ==
  {Node("HK", "vmess", "a.io", "1"), Node("JP", "vmess", "a.io", "1"),
   Node("HK", "VMESS", "a.io", "1"), Node("HK", "vmess", "a.io", "2")}

DedupeOptions ==
  {Opts({<<"dedupe", Str(d)>>} \cup f) :
     d \in {"addr", "ADDR", "name", "all", "other"},
     f \in {{}, {<<"include", Str("HK+SG")>>}, {<<"exclude", Str("JP")>>},
            {<<"regexInclude", Str("hk|sg")>>}, {<<"regexExclude", Str("jp")>>},
            {<<"onlyTypes", Str("vmess")>>}, {<<"dropTypes", Str("ss,vmess")>>},
            {<<"conflict", Str("drop")>>}}}

\* Names with and without a region, with a flag, with a fullwidth letter.
RegionNodes ==
  {Node("US-LosAngeles-01", "vmess", "a.io", "1"), Node("HK-US", "ss", "b.io", "1"),
   Node("Node  1", "trojan", "c.io", "1"),
   [Node("", "vmess", "d.io", "1") EXCEPT
      !.name = <<55356, 56815, 55356, 56821>> \o Str(" Tokyo") \o <<26085, 26412, 65313>> \o Str("1")]}

RegionOptions ==
  {Opts({<<"addFlag", Str("on")>>} \cup l \cup f) :
     l \in {{}, {<<"locLang", Str("zh")>>}, {<<"locLang", Str("en")>>}, {<<"locLang", Str("flag")>>}},
     f \in {{}, {<<"name", Str("MySub")>>}, {<<"subName", Str("My%20Sub")>>, <<"pos", Str("after")>>},
            {<<"template", Str("%7Bregion%7D%7Bsep%7D%7Bname%7D")>>},
            {<<"template", Str("{prefix}{type}{name}")>>, <<"name", Str("A")>>, <<"sep", Str("")>>},
            {<<"name", Str("MySub")>>, <<"removeRegionName", Str("true")>>},
            {<<"name", Str("MySub")>>, <<"regionMap", Str("Angeles:LA:X+Node")>>},
            {<<"name", Str("MySub")>>, <<"fallbackFlag", Str("%3F")>>, <<"sep", Str("%20")>>}}}
  \cup {Opts(f) : f \in {{<<"includeType", Str("false")>>}, {<<"removeRegionName", Str("1")>>},
                         {<<"removeEmoji", Str("on")>>}, {<<"sanitize", Str("yes")>>},
                         {<<"trimSpaces", Str("true")>>}, {<<"normalize", Str("true")>>},
                         {<<"cjkSpace", Str("true")>>}, {<<"maxLen", Str("6")>>},
                         {<<"name", Str("MySub")>>, <<"includeType", Str("0")>>}}}

\* Options that do not parse, and options that parse to nothing.
MalformedNodes == {Node("HK", "vmess", "a.io", "1"), Node("US 1", "ss", "b.io", "1")}

MalformedOptions ==
  {Opts({<<k, Str(v)>>}) :
     k \in {"name", "subName", "sep", "template", "fallbackFlag", "include", "onlyTypes",
            "regexInclude", "regexExclude", "map", "regionMap"},
     v \in {"%", "%zz", "%E4%B8", "(", "HK"}}
  \cup {Opts({<<"regionMap", Str(v)>>, <<"addFlag", Str("on")>>, <<"name", Str("S")>>}) :
          v \in {"HK:Hong:H+(", "(+HK:Hong:H", ":x+HK"}}
  \cup {Opts({<<k, Str("abc")>>}) : k \in {"maxLen", "indexPad", "hashLen", "abbr", "conflict"}}

\* Known and unknown protocol types under each label policy.
TypeNodes == {Node("n", "vmess", "a.io", "1"), Node("n", "foo", "b.io", "1")}

TypeOptions ==
  {Opts({<<"template", Str("{type}")>>, <<"conflict", Str("none")>>} \cup k \cup a \cup c \cup f) :
     k \in {{}, {<<"keepUnknownType", Str("ignore")>>}, {<<"keepUnknownType", Str("Full")>>},
            {<<"keepUnknownType", Str("short")>>}},
     a \in {{}, {<<"abbr", Str("off")>>}, {<<"abbr", Str("on")>>, <<"map", Str("FOO:F")>>},
            {<<"abbr", Str("off")>>, <<"map", Str("foo : F,VMESS")>>}},
     c \in {{}, {<<"case", Str("lower")>>}},
     f \in {{}, {<<"typeFmt", Str("paren")>>}, {<<"typeFmt", Str("none")>>}}}

Families ==
  { [nodes |-> ConflictNodes, options |-> ConflictOptions],
    [nodes |-> DedupeNodes, options |-> DedupeOptions],
    [nodes |-> RegionNodes, options |-> RegionOptions],
    [nodes |-> MalformedNodes, options |-> MalformedOptions],
    [nodes |-> TypeNodes, options |-> TypeOptions] }

\* operator is entered with an array of 0..MaxNodes distinct node objects.
Init ==
  \E fam \in Families : \E n \in 0..MaxNodes :
    \E nodes \in [1..n -> fam.nodes] : \E a \in fam.options :
      /\ args = a
      /\ heap = nodes
      /\ input = nodes
      /\ proxies = [i \in 1..n |-> i]
      /\ list = <<>>
      /\ pc = "parse"
      /\ cfg = Unset
      /\ preList = <<>>
      /\ preHeap = <<>>
      /\ origin = [i \in 1..n |-> i]

Spec == Init /\ [][Next]_vars

----------------------------------------------------------------------------
(* Properties                                                              *)

\* The i-th node returned, and the input node it was made from.
OutNode(i) == heap[list[i]]
SrcNode(i) == input[origin[list[i]]]
OutNames == [i \in 1..Len(list) |-> OutNode(i).name]

\* The number of nodes up to position i of the list the conflict stage
\* walked that carry the name of the node at position i.
Occurrence(i) ==
  Cardinality({j \in 1..i : preHeap[preList[j]].name = preHeap[preList[i]].name})

\* C1 (as claimed): with no prefix and no template, includeType true and
\* addFlag false, every node returned carries the name of the input node it
\* came from.
C1_Passthrough ==
  (pc = "done" /\ cfg.subName = <<>> /\ cfg.template = <<>> /\ cfg.includeType /\ ~cfg.addFlag)
    => \A i \in 1..Len(list) : OutNode(i).name = SrcNode(i).name

\* C2 (as claimed): under conflict index, hash or drop no two nodes
\* returned have the same name.
C2_UniqueNames ==
  (pc = "done" /\ cfg.conflict \in {S_index, S_hash, S_drop})
    => \A i, j \in 1..Len(list) : i # j => OutNode(i).name # OutNode(j).name

\* k in decimal, for k < 100.
Decimal(k) == IF k < 10 THEN <<48 + k>> ELSE <<48 + (k \div 10), 48 + (k % 10)>>

\* C3: under conflict=index with an integer indexPad the conflict stage
\* removes no node and keeps the order; the first node of a name keeps it,
\* the k-th (k >= 2) gets the name, one space, and k in decimal padded with
\* zeros to max(2, indexPad) digits.
C3_IndexNumbering ==
  (pc = "done" /\ cfg.conflict = S_index /\ ~cfg.indexPad.nan)
    => /\ list = preList
       /\ \A i \in 1..Len(list) :
            LET base == preHeap[list[i]].name
                k    == Occurrence(i)
            IN  OutNode(i).name =
                  IF k = 1 THEN base
                  ELSE base \o <<32>>
                       \o Repeat(48, Max(2, cfg.indexPad.v) - Len(Decimal(k))) \o Decimal(k)

\* C3 witness: three nodes named HK came out as HK, HK 02, HK 03.
C3_Witness ==
  /\ pc = "done" /\ cfg.conflict = S_index /\ cfg.indexPad = Num(2)
  /\ OutNames = <<Str("HK"), Str("HK 02"), Str("HK 03")>>
  /\ \A i \in 1..3 : SrcNode(i).name = Str("HK")

Triple(p) == <<p.server, p.port, p.type>>

\* C4: under dedupe=addr no two nodes returned have the same server, port
\* and type, and a node returned is the earliest node of its triple among
\* the input nodes that pass the filter.
C4_DedupeAddr ==
  (pc = "done" /\ cfg.dedupe = S_addr)
    => /\ \A i, j \in 1..Len(list) : i # j => Triple(OutNode(i)) # Triple(OutNode(j))
       /\ \A i \in 1..Len(list) : \A j \in 1..(origin[list[i]] - 1) :
            passesFilter(input[j]) => Triple(input[j]) # Triple(SrcNode(i))

\* C4 witness: three nodes of one address, the first rejected by the
\* filter; the second is the one returned.
C4_Witness ==
  /\ pc = "done" /\ cfg.dedupe = S_addr /\ Len(input) = 3
  /\ \A j \in 1..3 : Triple(input[j]) = Triple(input[1])
  /\ ~passesFilter(input[1]) /\ passesFilter(input[2]) /\ passesFilter(input[3])
  /\ Len(list) = 1 /\ origin[list[1]] = 2

\* C5 (as claimed): operator never raises, whatever the options.
C5_NeverRaises == pc # "raised"

SameButName(a, b) == [a EXCEPT !.name = <<>>] = [b EXCEPT !.name = <<>>]

\* C6: at every point of the call the caller's array and node objects are
\* as passed; every node of the list after the rename stage is made from
\* one input node, no two from the same, and equals it in every field
\* other than name.
C6_FieldsAndPurity ==
  /\ proxies = [i \in 1..Len(input) |-> i]
  /\ \A id \in 1..Len(input) : heap[id] = input[id]
  /\ pc \in {"sort", "conflict", "done"} =>
       /\ \A i \in 1..Len(list) :
            origin[list[i]] \in 1..Len(input) /\ SameButName(OutNode(i), SrcNode(i))
       /\ \A i, j \in 1..Len(list) : i # j => origin[list[i]] # origin[list[j]]

\* C6 witness: the conflict stage rewrote the name of a repeated node.
C6_Witness ==
  /\ pc = "done"
  /\ \E i \in 1..Len(list) :
       OutNode(i).name # preHeap[list[i]].name /\ SrcNode(i).name = preHeap[list[i]].name

\* C7 (as claimed): with addFlag on and locLang zh, the name of every node
\* whose input name a region rule matches contains the flag and zh label of
\* the first matching rule, with or without a prefix, and with no template
\* or one that has the {region} placeholder (no step that strips or cuts
\* characters being enabled).
C7_RegionSegment ==
  (pc = "done" /\ cfg.addFlag /\ cfg.locLang = S_zh
     /\ (cfg.template = <<>> \/ includes(cfg.template, P_region))
     /\ ~cfg.enableRemoveEmoji /\ ~cfg.enableSanitize /\ cfg.maxLen = Num(0))
    => \A i \in 1..Len(list) :
         LET r == detectRegion(SrcNode(i).name)
         IN  r.found => includes(OutNode(i).name,
                                 (IF r.flag # <<>> THEN r.flag ELSE cfg.fallbackFlag)
                                 \o <<32>> \o r.zh)

\* hash = (hash * 33 + charCode) mod 2^32 on an unsigned 32-bit value.
RefStep(h, c) ==
  Wide((h.hi * 33 + ((h.lo * 33 + c) \div Limb)) % Limb, (h.lo * 33 + c) % Limb)

\* The recurrence over text[first..last], entered with the value h.
RECURSIVE RefHash(_, _, _, _)
RefHash(text, first, last, h) ==
  IF first > last THEN h
  ELSE IF first = last THEN RefStep(h, text[first])
  ELSE Then(RefHash(text, first, (first + last) \div 2, h),
            LAMBDA m : RefHash(text, ((first + last) \div 2) + 1, last, m))

\* The hash suffix of the node p as the claim computes it.
RefSuffix(p, length) ==
  LET text == p.server \o <<58>> \o p.port \o <<58>> \o p.type \o <<58>> \o p.name
      hex  == toHex(RefHash(text, 1, Len(text), Wide(0, 5381)))
  IN  SubSeq(hex, Max(1, Len(hex) - Max(1, length) + 1), Len(hex))

\* C8: under conflict=hash with an integer hashLen the first node of a name
\* keeps it and a repeated node gets name, "-", and the last max(1, hashLen)
\* hexadecimal digits of the mod-2^32 recurrence over server:port:type:name;
\* the suffix is that function of the node alone.
C8_HashSuffix ==
  (pc = "done" /\ cfg.conflict = S_hash /\ ~cfg.hashLen.nan)
    => /\ list = preList
       /\ \A i \in 1..Len(list) :
            LET p == preHeap[list[i]]
            IN  OutNode(i).name =
                  IF Occurrence(i) = 1 THEN p.name
                  ELSE p.name \o <<45>> \o RefSuffix(p, cfg.hashLen.v)

\* C8 witness: a repeated node whose running value left the unsigned
\* 32-bit range and whose digits were cut.
C8_Witness ==
  /\ pc = "done" /\ cfg.conflict = S_hash /\ ~cfg.hashLen.nan
  /\ \E i \in 1..Len(list) :
       /\ Occurrence(i) > 1
       /\ hashLoop(hashInput(preHeap[list[i]]), 1, Len(hashInput(preHeap[list[i]])), Wide(0, HashSeed)).hi < 0
       /\ Len(toHex(ToUint32(hashLoop(hashInput(preHeap[list[i]]), 1, Len(hashInput(preHeap[list[i]])), Wide(0, HashSeed)))))
            > Max(1, cfg.hashLen.v)

\* The calls in which the name returned is the type display alone.
TypeOnly ==
  /\ pc = "done" /\ cfg.template = P_type /\ cfg.conflict = S_none
  /\ ~cfg.enableRemoveEmoji /\ ~cfg.enableSanitize /\ ~cfg.enableTrimSpaces
  /\ ~cfg.enableNormalize /\ ~cfg.enableCjkSpace /\ cfg.maxLen = Num(0)

UnknownType(p) == lookupAbbr(cfg.typeAbbr, toUpperCase(p.type)) = <<>>

\* A label after case and bracket wrapping.
Shown(label) ==
  LET cased == IF cfg.typeCase = S_lower THEN toLowerCase(label) ELSE label
  IN  IF cfg.typeFmt = S_paren THEN <<40>> \o cased \o <<41>>
      ELSE IF cfg.typeFmt = S_none THEN cased
      ELSE <<91>> \o cased \o <<93>>

\* C9 (as claimed): for a type absent from the table the label is empty
\* under ignore, the upper-case type under full and its first two
\* characters under short, for either value of abbr.
C9_ShortForEitherAbbr ==
  TypeOnly => \A i \in 1..Len(list) :
    LET up == toUpperCase(OutNode(i).type)
    IN  UnknownType(OutNode(i)) =>
          OutNode(i).name =
            IF cfg.keepUnknownType = S_ignore THEN <<>>
            ELSE IF cfg.keepUnknownType = S_full THEN Shown(up)
            ELSE Shown(SubSeq(up, 1, Min(2, Len(up))))

\* C9 (amended): for a type absent from the table the display is empty
\* under ignore; otherwise the label is the upper-case type when abbr is
\* off, and when abbr is on the upper-case type under full and its first
\* two characters under short.  For a type in the table the label is the
\* table's abbreviation when abbr is on and the upper-case type when off.
C9_LabelPolicy ==
  TypeOnly => \A i \in 1..Len(list) :
    LET up == toUpperCase(OutNode(i).type)
    IN  OutNode(i).name =
          IF UnknownType(OutNode(i)) /\ cfg.keepUnknownType = S_ignore THEN <<>>
          ELSE IF ~cfg.useAbbr THEN Shown(up)
          ELSE IF ~UnknownType(OutNode(i)) THEN Shown(lookupAbbr(cfg.typeAbbr, up))
          ELSE IF cfg.keepUnknownType = S_full THEN Shown(up)
          ELSE Shown(SubSeq(up, 1, Min(2, Len(up))))

\* C9 witness: an unknown type under short with abbr off is shown in full.
C9_Witness ==
  /\ TypeOnly /\ ~cfg.useAbbr /\ cfg.keepUnknownType = S_short
  /\ \E i \in 1..Len(list) :
       /\ UnknownType(OutNode(i))
       /\ OutNode(i).type = Str("foo")
       /\ OutNode(i).name = Shown(Str("FOO"))

\* C10 (as claimed): with a positive maxLen every name returned has at most
\* maxLen characters.
C10_LengthBound ==
  (pc = "done" /\ ~cfg.maxLen.nan /\ cfg.maxLen.v > 0)
    => \A i \in 1..Len(list) : Len(OutNode(i).name) <= cfg.maxLen.v

====
